---- MODULE Spec2Model ----
(***************************************************************************)
(* A model of the spreadsheet aggregation of data_processing_toolkit:      *)
(* the cell addressing and cell reading helpers of excel_formulas.py and   *)
(* the run of collate_excel_files (collater.py).                           *)
(*                                                                         *)
(* Text that the code takes apart character by character (cell addresses,  *)
(* sheet names inside addresses) is a sequence of one-character strings.   *)
(* Text that the code only compares or concatenates (file names, headers,  *)
(* cell contents) is a string.                                             *)
(***************************************************************************)
EXTENDS Integers, Sequences, FiniteSets, TLC

(***************************************************************************)
(* Bounds of the model.                                                    *)
(***************************************************************************)
MaxRowNo == 10
MaxColNo == 27
MaxNFiles == 4
MaxNHeaders == 3
MaxFolder == 2
MaxSuffix == 2
MaxPlotRows == 3
MaxNameLen == 3
MaxRuns == 2

(***************************************************************************)
(* Characters.                                                             *)
(***************************************************************************)
Letters == <<"A","B","C","D","E","F","G","H","I","J","K","L","M",
             "N","O","P","Q","R","S","T","U","V","W","X","Y","Z">>

Digits == <<"0","1","2","3","4","5","6","7","8","9">>

IsLetter(c) == \E i \in 1..26 : Letters[i] = c

IsDigit(c) == \E i \in 1..10 : Digits[i] = c

LetterOrd(c) == CHOOSE i \in 1..26 : Letters[i] = c

DigitVal(c) == (CHOOSE i \in 1..10 : Digits[i] = c) - 1

\* str(n) of a non-negative int
RECURSIVE IntToStr(_)
IntToStr(n) ==
    IF n < 10 THEN <<Digits[n + 1]>>
    ELSE IntToStr(n \div 10) \o <<Digits[(n % 10) + 1]>>

\* int(s) of a run of decimal digits
RECURSIVE StrToInt(_)
StrToInt(s) ==
    IF s = <<>> THEN 0
    ELSE 10 * StrToInt(SubSeq(s, 1, Len(s) - 1)) + DigitVal(s[Len(s)])

(***************************************************************************)
(* xlsxwriter.utility, as imported by excel_formulas.py.                   *)
(***************************************************************************)
\* the while loop of xl_col_to_name on the 1-based column number
RECURSIVE ColLoop(_, _)
ColLoop(col_num, col_str) ==
    IF col_num = 0 THEN col_str
    ELSE LET remainder == IF col_num % 26 = 0 THEN 26 ELSE col_num % 26
         IN ColLoop((col_num - 1) \div 26, <<Letters[remainder]>> \o col_str)

xl_col_to_name(col, col_abs) ==
    (IF col_abs THEN <<"$">> ELSE <<>>) \o ColLoop(col + 1, <<>>)

xl_rowcol_to_cell(row, col, row_abs, col_abs) ==
    xl_col_to_name(col, col_abs)
        \o (IF row_abs THEN <<"$">> ELSE <<>>)
        \o IntToStr(row + 1)

\* length of the run of characters satisfying the test, from position i
RECURSIVE LetterRun(_, _)
LetterRun(a, i) ==
    IF i <= Len(a) /\ IsLetter(a[i]) THEN 1 + LetterRun(a, i + 1) ELSE 0

RECURSIVE DigitRun(_, _)
DigitRun(a, i) ==
    IF i <= Len(a) /\ IsDigit(a[i]) THEN 1 + DigitRun(a, i + 1) ELSE 0

\* base-26 value of a column name
RECURSIVE ColNameToNum(_)
ColNameToNum(s) ==
    IF s = <<>> THEN 0
    ELSE 26 * ColNameToNum(SubSeq(s, 1, Len(s) - 1)) + LetterOrd(s[Len(s)])

\* xl_cell_to_rowcol: the match of (\$?)([A-Z]{1,3})(\$?)(\d+) at the start
\* of the text; a text that does not match makes the call raise.
xl_cell_to_rowcol(cell_str) ==
    IF cell_str = <<>> THEN [raised |-> FALSE, row |-> 0, col |-> 0]
    ELSE
    LET p1 == IF cell_str[1] = "$" THEN 2 ELSE 1
        nl == LetterRun(cell_str, p1)
        p2 == p1 + nl
        p3 == IF p2 <= Len(cell_str) /\ cell_str[p2] = "$" THEN p2 + 1 ELSE p2
        nd == DigitRun(cell_str, p3)
    IN  IF nl < 1 \/ nl > 3 \/ nd < 1
        THEN [raised |-> TRUE, row |-> 0, col |-> 0]
        ELSE [raised |-> FALSE,
              row |-> StrToInt(SubSeq(cell_str, p3, p3 + nd - 1)) - 1,
              col |-> ColNameToNum(SubSeq(cell_str, p1, p2 - 1)) - 1]

(***************************************************************************)
(* excel_formulas.py: addresses.  No caller in the program passes          *)
(* file_path, so the operator has the other parameters only.               *)
(***************************************************************************)
convert_to_excel_address(row_no, col_no, sheet_name, fixed_row, fixed_column) ==
    LET cell_address == xl_rowcol_to_cell(row_no, col_no, fixed_row, fixed_column)
    IN  IF sheet_name # <<>>
        THEN <<"'">> \o sheet_name \o <<"'", "!">> \o cell_address
        ELSE cell_address

\* position of the first occurrence of c in a at or after i, 0 when none
RECURSIVE IndexOf(_, _, _)
IndexOf(a, c, i) ==
    IF i > Len(a) THEN 0
    ELSE IF a[i] = c THEN i
    ELSE IndexOf(a, c, i + 1)

\* a.split(c)[0] and a.split(c)[1], for a text that contains c
SplitFirst(a, c) == SubSeq(a, 1, IndexOf(a, c, 1) - 1)

SplitSecond(a, c) ==
    LET i == IndexOf(a, c, 1)
        j == IndexOf(a, c, i + 1)
    IN  IF j = 0 THEN SubSeq(a, i + 1, Len(a)) ELSE SubSeq(a, i + 1, j - 1)

\* a.strip(c)
RECURSIVE Strip(_, _)
Strip(a, c) ==
    IF a = <<>> THEN a
    ELSE IF a[1] = c THEN Strip(Tail(a), c)
    ELSE IF a[Len(a)] = c THEN Strip(SubSeq(a, 1, Len(a) - 1), c)
    ELSE a

convert_from_excel_cell_address(cell_address) ==
    LET has == IndexOf(cell_address, "!", 1) # 0
        sheet_name == IF has THEN Strip(SplitFirst(cell_address, "!"), "'")
                      ELSE <<>>
        address == IF has THEN SplitSecond(cell_address, "!") ELSE cell_address
        rc == xl_cell_to_rowcol(address)
    IN  [raised |-> rc.raised, sheet_name |-> sheet_name,
         row_no |-> rc.row, col_no |-> rc.col]

(***************************************************************************)
(* collater.py: the layout of the destination sheets.                      *)
(***************************************************************************)
\* a stride that does not grow with the number of files
StrideFixed(n_files) == 2

\* rel_space_between_targets
Stride(n_files) == n_files + 2

\* a layout whose header blocks follow each other without free columns
DestColumnPacked(file_index_, header_index, space_between_targets) ==
    file_index_ + ((space_between_targets - 2) * header_index)

\* the destination column of (file_index, header_index)
DestColumn(file_index_, header_index, space_between_targets) ==
    file_index_ + (space_between_targets * header_index)

\* the same with the stride of a run over n files
Offset(file_index_, header_index, files) ==
    DestColumn(file_index_, header_index, Stride(files))

(***************************************************************************)
(* Cell contents.  A Python value is a pair <<type, text>>: the text of a  *)
(* str is the string itself, the text of a number is its repr.             *)
(***************************************************************************)
PyNone == <<"NoneType", "">>

PyStr(s) == <<"str", s>>

PyFloat(s) == <<"float", s>>

PyInt(s) == <<"int", s>>

\* constants.py
NAN_FROM_EXCEL == "#N/A"

ALT_NAN_FROM_EXCEL == "=NA()"

ERROR_FROM_EXCEL == "#VALUE!"

REF_VALUE_FROM_EXCEL == "#REF!"

DIV0_EXCEL_ERROR == "#DIV/0!"

ERROR_VALUE_FOR_INPUT == "NA()"

EXCEL_ERROR_VALUES ==
    <<NAN_FROM_EXCEL, ALT_NAN_FROM_EXCEL, ERROR_FROM_EXCEL,
      REF_VALUE_FROM_EXCEL, ERROR_VALUE_FOR_INPUT, DIV0_EXCEL_ERROR>>

EXCEL_DEFAULT_SHEETNAME == "Sheet"

POINT_ANALYSIS_CHARS ==
    <<"P","o","i","n","t"," ","A","n","a","l","y","s","i","s">>

AVERAGE_LABEL == "Average"

STD_LABEL == "STD"

\* cell_data in constants.EXCEL_ERROR_VALUES: membership by ==, and only a
\* str is equal to a str
InErrorValues(cell_data) ==
    /\ cell_data[1] = "str"
    /\ \E i \in 1..Len(EXCEL_ERROR_VALUES) : EXCEL_ERROR_VALUES[i] = cell_data[2]

\* the texts float() parses, with the repr of the float they give
FloatOfText ==
    ("1.5" :> "1.5") @@ ("2" :> "2.0") @@ ("3" :> "3.0") @@ (" 7 " :> "7.0")

\* float(cell_data): a float is kept, an int is converted, a str is parsed
\* (ValueError when it is no number), None is a TypeError
PyFloatOf(cell_data) ==
    IF cell_data[1] = "float" THEN [raised |-> FALSE, val |-> cell_data]
    ELSE IF cell_data[1] \in {"int", "str"} /\ cell_data[2] \in DOMAIN FloatOfText
    THEN [raised |-> FALSE, val |-> PyFloat(FloatOfText[cell_data[2]])]
    ELSE [raised |-> TRUE, val |-> PyNone]

\* str(cell_data): never fails; str(None) is the text "None"
PyStrOf(cell_data) ==
    IF cell_data[1] = "NoneType" THEN PyStr("None") ELSE PyStr(cell_data[2])

(***************************************************************************)
(* A worksheet of a source workbook: its title and its rows, each row a    *)
(* sequence of cell contents (row 1 is the header row).                    *)
(***************************************************************************)
max_row(worksheet) == Len(worksheet.rows)

max_column(worksheet) ==
    IF worksheet.rows = <<>> THEN 1 ELSE Len(worksheet.rows[1])

\* worksheet[key].value: the key is a coordinate such as B3; a cell outside
\* the stored rows is an empty cell
WorksheetValue(worksheet, key) ==
    LET rc == xl_cell_to_rowcol(key)
        r == rc.row + 1
        c == rc.col + 1
    IN  IF r \in 1..Len(worksheet.rows) /\ c \in 1..Len(worksheet.rows[r])
        THEN worksheet.rows[r][c]
        ELSE PyNone

\* An optional column number: <<>> is None, <<c>> is the int c.
NoCol == <<>>

\* get_cell_value without the test for error markers on the text branch
get_cell_value_unchecked_text(worksheet, row_no, col_no, is_number, default_value) ==
    IF col_no = NoCol THEN [raised |-> TRUE, val |-> PyNone]
    ELSE
    LET cell_data ==
            WorksheetValue(worksheet,
                convert_to_excel_address(row_no, col_no[1], <<>>, FALSE, FALSE))
        coerced == IF is_number THEN PyFloatOf(cell_data)
                   ELSE [raised |-> FALSE, val |-> PyStrOf(cell_data)]
    IN  IF is_number /\ InErrorValues(cell_data)
        THEN [raised |-> FALSE, val |-> default_value]
        ELSE IF coerced.raised THEN [raised |-> FALSE, val |-> default_value]
        ELSE [raised |-> FALSE, val |-> coerced.val]

\* excel_formulas.get_cell_value.  The address is computed before the try
\* block; with col_no = None the address computation raises TypeError.
get_cell_value(worksheet, row_no, col_no, is_number, default_value) ==
    IF col_no = NoCol THEN [raised |-> TRUE, val |-> PyNone]
    ELSE
    LET cell_data ==
            WorksheetValue(worksheet,
                convert_to_excel_address(row_no, col_no[1], <<>>, FALSE, FALSE))
        coerced == IF is_number THEN PyFloatOf(cell_data)
                   ELSE [raised |-> FALSE, val |-> PyStrOf(cell_data)]
    IN  IF InErrorValues(cell_data) THEN [raised |-> FALSE, val |-> default_value]
        ELSE IF coerced.raised THEN [raised |-> FALSE, val |-> default_value]
        ELSE [raised |-> FALSE, val |-> coerced.val]

\* the str of a sequence of characters
RECURSIVE Join(_)
Join(chars) == IF chars = <<>> THEN "" ELSE chars[1] \o Join(Tail(chars))

POINT_ANALYSIS_LABEL == Join(POINT_ANALYSIS_CHARS)

\* excel_formulas.create_sheet_name: at most 31 characters, then without
\* the characters Excel forbids in a sheet title
RECURSIVE DropIllegal(_)
DropIllegal(chars) ==
    IF chars = <<>> THEN <<>>
    ELSE IF chars[1] \in {"[", "]", ":", "*", "?", "/", "\\"}
    THEN DropIllegal(Tail(chars))
    ELSE <<chars[1]>> \o DropIllegal(Tail(chars))

create_sheet_name(name) ==
    DropIllegal(IF Len(name) <= 31 THEN name ELSE SubSeq(name, 1, 31))

\* formula.lstrip("="): a formula is the sequence of its pieces of text, each
\* leading "=" a piece of its own
RECURSIVE LStrip(_, _)
LStrip(pieces, ch) ==
    IF pieces # <<>> /\ pieces[1] = ch THEN LStrip(Tail(pieces), ch) ELSE pieces

\* excel_formulas.error_guard_formula; the leading "=" and every parenthesis
\* of a formula are pieces of their own
error_guard_formula(formula, default) ==
    IF default = PyNone
    THEN <<"=", "IFERROR", "(">> \o LStrip(formula, "=")
            \o <<", ", "NA", "(", ")", ")">>
    ELSE <<"=", "IFERROR", "(">> \o LStrip(formula, "=")
            \o <<", ", default[2], ")">>

\* f"{start_address}:{end_address}" of the row-range formulas
RowRange(row_no, start_col_no, end_col_no) ==
    convert_to_excel_address(row_no, start_col_no, <<>>, FALSE, FALSE)
        \o <<":">>
        \o convert_to_excel_address(row_no, end_col_no, <<>>, FALSE, FALSE)

\* excel_formulas.get_average_equation_for_row_range
get_average_equation_for_row_range(row_no, start_col_no, end_col_no, positive_only) ==
    LET range_formula == RowRange(row_no, start_col_no, end_col_no)
        avg_equation ==
            IF positive_only
            THEN <<"=", "AVERAGEIFS", "(">> \o range_formula \o <<", ">>
                    \o range_formula \o <<", ", "\"<>#N/A\"", ", ">>
                    \o range_formula \o <<", ", "\">= 0\"", ")">>
            ELSE <<"=", "AVERAGEIFS", "(">> \o range_formula \o <<", ">>
                    \o range_formula \o <<", ", "\"<>#N/A\"", ")">>
    IN  error_guard_formula(avg_equation, PyNone)

\* excel_formulas.get_std_equation_for_row_range
get_std_equation_for_row_range(row_no, start_col_no, end_col_no, positive_only) ==
    LET range_formula == RowRange(row_no, start_col_no, end_col_no)
        condition == <<"IF", "(", "(">> \o range_formula \o <<" > 0", ")", ", ">>
                        \o range_formula \o <<", ", "\"\"", ")">>
        std_equation ==
            IF positive_only
            THEN <<"=", "STDEV", "(">> \o condition
            ELSE <<"=", "STDEV", "(">> \o range_formula
    IN  error_guard_formula(std_equation, PyNone)

(***************************************************************************)
(* The files a folder can hold.  A file name is the sequence of its        *)
(* dot-separated parts; `loads' tells whether load_workbook can open the   *)
(* file; `sheets' are the worksheets of the workbook in it.                *)
(***************************************************************************)
Sheet(title, rows) == [title |-> title, rows |-> rows]

H(s) == PyStr(s)

SheetRun1a ==
    Sheet("Run1", << <<H("Average"), H("STD")>>,
                     <<PyFloat("1.5"), PyNone>>,
                     <<PyStr("#DIV/0!"), PyStr("abc")>> >>)

SheetRun1b ==
    Sheet("Run1", << <<H("Average"), H("STD")>>,
                     <<PyInt("2"), PyStr("3")>> >>)

SheetRun2 ==
    Sheet("Run2", << <<H("Time"), H("Average")>>,
                     <<PyInt("3"), PyStr("#N/A")>> >>)

SheetDup ==
    Sheet("Dup", << <<H("Average"), H("Average")>>,
                    <<PyFloat("1.5"), PyInt("2")>> >>)

SheetNotes ==
    Sheet("Notes", << <<H("Time"), H("Comment")>>,
                      <<PyInt("3"), PyStr("abc")>> >>)

SheetDefault ==
    Sheet(EXCEL_DEFAULT_SHEETNAME, << <<H("Average")>>, <<PyInt("2")>> >>)

SheetPoint ==
    Sheet(POINT_ANALYSIS_LABEL, << <<H("Average"), H("STD")>>,
                                   <<PyInt("2"), PyInt("3")>> >>)

FileA == [name |-> <<"a", "xlsx">>, loads |-> TRUE, sheets |-> <<SheetRun1a>>]

FileB == [name |-> <<"b", "xlsx">>, loads |-> TRUE, sheets |-> <<SheetRun1b>>]

FileC == [name |-> <<"c", "xlsx">>, loads |-> TRUE, sheets |-> <<SheetDup>>]

FileE == [name |-> <<"e", "xlsx">>, loads |-> TRUE,
          sheets |-> <<SheetNotes, SheetRun2>>]

FileD == [name |-> <<"d", "xlsx">>, loads |-> TRUE,
          sheets |-> <<SheetDefault, SheetPoint>>]

\* the lock file Excel keeps next to an open workbook: no workbook in it
FileLock == [name |-> <<"~$a", "xlsx">>, loads |-> FALSE, sheets |-> <<>>]

FileTxt == [name |-> <<"notes", "txt">>, loads |-> FALSE, sheets |-> <<>>]

FilePool == {FileA, FileB, FileC, FileD, FileE, FileLock, FileTxt}

\* the listings of a folder: files of the pool, each at most once
Listings ==
    {l \in UNION {[1..n -> FilePool] : n \in 0..MaxFolder} :
        \A i, j \in DOMAIN l : i # j => l[i] # l[j]}

TargetHeaderLists == {<<AVERAGE_LABEL, STD_LABEL>>, <<AVERAGE_LABEL>>}

IndependentSheetnames == {"", "Run1"}

(***************************************************************************)
(* file_handler.py                                                         *)
(***************************************************************************)
EXCEL_FILE_EXTENSION == "xlsx"

\* file.endswith(".xlsx"): there is a dot, and the part after the last dot
\* is the extension
EndsWithExtension(name, extension) ==
    Len(name) >= 2 /\ name[Len(name)] = extension

\* the elements of a sequence that satisfy a test, in order
RECURSIVE FilterExcel(_)
FilterExcel(listing) ==
    IF listing = <<>> THEN <<>>
    ELSE IF EndsWithExtension(listing[1].name, EXCEL_FILE_EXTENSION)
    THEN <<listing[1]>> \o FilterExcel(Tail(listing))
    ELSE FilterExcel(Tail(listing))

get_excel_files_from_folder(listing) == FilterExcel(listing)

\* file_path.split(".")[0] of the last path component
get_filename(file) == file.name[1]

(***************************************************************************)
(* The state.                                                              *)
(***************************************************************************)
VARIABLES
    fn, args, ret,              \* a helper function applied on its own
    pc,                         \* the position of the run of collate_excel_files
    root_folder, listing,       \* the chosen folder and the files listed in it
    target_headers, independent_variable_sheetname,
    has_max_colum,              \* whether a worksheet object answers .max_colum
    axis_title_accepts_list,    \* whether a chart axis takes a list as its title
    excel_file_paths, n_files, rel_space_between_targets,
    dst_sheetnames, dst_cells, dst_charts,      \* dst_workbook
    file_index, sheet_no, col, row_count, col_count,
    contains_a_target_column, max_row_count,
    out_file,                   \* the workbook stored at destination_path
    error,                      \* the exception that ended the run, if any
    saves,                      \* calls of dst_workbook.save so far
    pa_calls,                   \* the calls of insert_point_analysis_formula
    run_no                      \* which call of collate_excel_files this is

fnvars == <<fn, args, ret>>

cfgvars == <<root_folder, listing, target_headers,
             independent_variable_sheetname, has_max_colum,
             axis_title_accepts_list, run_no>>

filevars == <<excel_file_paths, n_files, rel_space_between_targets>>

dstvars == <<dst_sheetnames, dst_cells, dst_charts>>

loopvars == <<file_index, sheet_no, col, row_count, col_count,
              contains_a_target_column, max_row_count>>

vars == <<fnvars, pc, cfgvars, filevars, dstvars, loopvars,
          out_file, error, saves, pa_calls>>

NoFile == [exists |-> FALSE, sheetnames |-> <<>>, cells |-> <<>>, charts |-> <<>>]

NoCells == <<>>

Range(seq) == {seq[i] : i \in DOMAIN seq}

\* list.index(x): the 0-based position of the first element equal to x
ListIndex(seq, x) == (CHOOSE i \in DOMAIN seq :
                        seq[i] = x /\ \A j \in 1..(i - 1) : seq[j] # x) - 1

\* worksheet[address] = value, in the sheet of that title
WriteCell(cells, title, address, value) ==
    [cells EXCEPT ![title] = (address :> value) @@ @]

Addr(row_no, col_no) == convert_to_excel_address(row_no, col_no, <<>>, FALSE, FALSE)

\* the state in which no run has started
RunIdle ==
    /\ pc = "start"
    /\ excel_file_paths = <<>> /\ n_files = 0 /\ rel_space_between_targets = 0
    /\ dst_sheetnames = <<>> /\ dst_cells = <<>> /\ dst_charts = <<>>
    /\ file_index = 0 /\ sheet_no = 0 /\ col = 0
    /\ row_count = 0 /\ col_count = 0
    /\ contains_a_target_column = FALSE /\ max_row_count = 0
    /\ out_file = NoFile /\ error = "" /\ saves = 0 /\ pa_calls = <<>>

Init ==
    /\ fn = "none" /\ args = <<>> /\ ret = <<>>
    /\ root_folder \in {"", "C:/data"}
    /\ listing \in Listings
    /\ root_folder = "" => listing = <<>>
    /\ target_headers \in TargetHeaderLists
    /\ independent_variable_sheetname \in IndependentSheetnames
    /\ has_max_colum \in BOOLEAN
    /\ axis_title_accepts_list \in BOOLEAN
    /\ run_no = 1
    /\ RunIdle

(***************************************************************************)
(* collater.py: insert_point_analysis_formula                              *)
(***************************************************************************)
\* a formula that addresses the row of the anchor value itself
PointFormulaSameRow(point_address, column_number, sheet_title) ==
    "=INDIRECT(ADDRESS(" \o Join(point_address) \o ", "
        \o Join(IntToStr(column_number)) \o ",,,\"" \o sheet_title \o "\"))"

\* the formula of line 108
PointFormula(point_address, column_number, sheet_title) ==
    "=INDIRECT(ADDRESS(" \o Join(point_address) \o "+1, "
        \o Join(IntToStr(column_number)) \o ",,,\"" \o sheet_title \o "\"))"

\* the body of the loop for header_idx, and the loop from header_idx on
RECURSIVE PointLoop(_, _, _, _, _, _, _)
PointLoop(cells, header_idx, sheet_index, sheet_title, file_index_, space_between_targets, headers) ==
    IF header_idx >= Len(headers) THEN cells
    ELSE
    LET point_address == Addr(0, 1 + file_index_)
        labelled ==
            WriteCell(cells, POINT_ANALYSIS_LABEL,
                Addr(sheet_index, space_between_targets * header_idx),
                PyStr(sheet_title \o " (" \o headers[header_idx + 1] \o ")"))
        written ==
            WriteCell(labelled, POINT_ANALYSIS_LABEL,
                Addr(sheet_index, 1 + file_index_),
                PyStr(PointFormula(point_address,
                    file_index_ + (space_between_targets * header_idx) + 1,
                    sheet_title)))
    IN  PointLoop(written, header_idx + 1, sheet_index, sheet_title,
                  file_index_, space_between_targets, headers)

insert_point_analysis_formula(cells, sheet_index, sheet_title, file_index_, space_between_targets, headers) ==
    PointLoop(cells, 0, sheet_index, sheet_title, file_index_,
              space_between_targets, headers)

(***************************************************************************)
(* collater.py: collate_excel_files, one action per step of the run.       *)
(***************************************************************************)
Fail(exception) ==
    /\ pc' = "failed"
    /\ error' = exception

\* a start that creates the destination workbook whatever the file count
StartAlways ==
    /\ pc = "start"
    /\ LET paths == get_excel_files_from_folder(listing)
       IN  IF root_folder = ""
           THEN /\ pc' = "done"
                /\ UNCHANGED <<filevars, dstvars>>
           ELSE /\ excel_file_paths' = paths
                /\ n_files' = Len(paths)
                /\ rel_space_between_targets' = Stride(Len(paths))
                /\ dst_sheetnames' =
                      <<EXCEL_DEFAULT_SHEETNAME,
                        Join(create_sheet_name(POINT_ANALYSIS_CHARS))>>
                /\ dst_cells' =
                      (EXCEL_DEFAULT_SHEETNAME :> NoCells) @@
                      (Join(create_sheet_name(POINT_ANALYSIS_CHARS)) :>
                          (Addr(0, 0) :> PyStr("Column Index ->")))
                /\ dst_charts' = <<>>
                /\ pc' = IF Len(paths) # 0 THEN "open" ELSE "save"
    /\ UNCHANGED <<fnvars, cfgvars, loopvars, out_file, error, saves, pa_calls>>

\* lines 128-149: the folder is listed and the destination workbook created
Start ==
    /\ pc = "start"
    /\ LET paths == get_excel_files_from_folder(listing)
       IN  IF root_folder = ""
           THEN /\ pc' = "done"
                /\ UNCHANGED <<filevars, dstvars>>
           ELSE /\ excel_file_paths' = paths
                /\ n_files' = Len(paths)
                /\ rel_space_between_targets' = Stride(Len(paths))
                /\ IF Len(paths) # 0
                   THEN /\ dst_sheetnames' =
                              <<EXCEL_DEFAULT_SHEETNAME,
                                Join(create_sheet_name(POINT_ANALYSIS_CHARS))>>
                        /\ dst_cells' =
                              (EXCEL_DEFAULT_SHEETNAME :> NoCells) @@
                              (Join(create_sheet_name(POINT_ANALYSIS_CHARS)) :>
                                  (Addr(0, 0) :> PyStr("Column Index ->")))
                        /\ dst_charts' = <<>>
                        /\ pc' = "open"
                   ELSE /\ pc' = "done"
                        /\ UNCHANGED dstvars
    /\ UNCHANGED <<fnvars, cfgvars, loopvars, out_file, error, saves, pa_calls>>

\* the labels of lines 158-163, from header position idx on
RECURSIVE FileLabels(_, _, _, _, _)
FileLabels(cells, idx, excel_filename, space_between_targets, headers) ==
    IF idx >= Len(headers) THEN cells
    ELSE FileLabels(
            WriteCell(cells, POINT_ANALYSIS_LABEL,
                Addr(1, 1 + (space_between_targets * idx)),
                PyStr(excel_filename \o " (" \o headers[idx + 1] \o ")")),
            idx + 1, excel_filename, space_between_targets, headers)

CurrentFile == excel_file_paths[file_index + 1]

CurrentSheet == CurrentFile.sheets[sheet_no]

\* a load that passes over a file it cannot open
OpenFileSkipping ==
    /\ pc = "open"
    /\ IF CurrentFile.loads
       THEN /\ dst_cells' = FileLabels(dst_cells, 0, get_filename(CurrentFile),
                                       rel_space_between_targets, target_headers)
            /\ sheet_no' = 1
            /\ pc' = "sheet"
            /\ UNCHANGED file_index
       ELSE /\ file_index' = file_index + 1
            /\ pc' = IF file_index + 1 < n_files THEN "open" ELSE "save"
            /\ UNCHANGED <<dst_cells, sheet_no>>
    /\ UNCHANGED <<fnvars, cfgvars, filevars, dst_sheetnames, dst_charts,
                   col, row_count, col_count,
                   contains_a_target_column, max_row_count,
                   out_file, error, saves, pa_calls>>

\* lines 151-163: the next source workbook is loaded; load_workbook raises
\* on a file that is no workbook and nothing catches it
OpenFile ==
    /\ pc = "open"
    /\ IF CurrentFile.loads
       THEN /\ dst_cells' = FileLabels(dst_cells, 0, get_filename(CurrentFile),
                                       rel_space_between_targets, target_headers)
            /\ sheet_no' = 1
            /\ pc' = "sheet"
            /\ UNCHANGED error
       ELSE /\ Fail("InvalidFileException")
            /\ UNCHANGED <<dst_cells, sheet_no>>
    /\ UNCHANGED <<fnvars, cfgvars, filevars, dst_sheetnames, dst_charts,
                   file_index, col, row_count, col_count,
                   contains_a_target_column, max_row_count,
                   out_file, saves, pa_calls>>

\* lines 165-172: the sizes of the next sheet are read.  The column count is
\* read as sheet.max_colum; a worksheet object without an attribute of that
\* name (openpyxl names it max_column) raises AttributeError.
BeginSheet ==
    /\ pc = "sheet"
    /\ sheet_no <= Len(CurrentFile.sheets)
    /\ row_count' = max_row(CurrentSheet)
    /\ IF has_max_colum
       THEN /\ col_count' = max_column(CurrentSheet)
            /\ max_row_count' =
                  IF max_row(CurrentSheet) > max_row_count
                  THEN max_row(CurrentSheet) ELSE max_row_count
            /\ contains_a_target_column' = FALSE
            /\ col' = 0
            /\ pc' = "col"
            /\ UNCHANGED error
       ELSE /\ Fail("AttributeError")
            /\ UNCHANGED <<col_count, max_row_count, contains_a_target_column, col>>
    /\ UNCHANGED <<fnvars, cfgvars, filevars, dstvars, file_index, sheet_no,
                   out_file, saves, pa_calls>>

\* the end of a file with a save of what has been collected so far
EndFileSaving ==
    /\ pc = "sheet"
    /\ sheet_no > Len(CurrentFile.sheets)
    /\ file_index' = file_index + 1
    /\ pc' = IF file_index + 1 < n_files THEN "open" ELSE "save"
    /\ out_file' = [exists |-> TRUE, sheetnames |-> dst_sheetnames,
                    cells |-> dst_cells, charts |-> dst_charts]
    /\ saves' = saves + 1
    /\ UNCHANGED <<fnvars, cfgvars, filevars, dstvars, sheet_no, col, row_count,
                   col_count, contains_a_target_column, max_row_count,
                   error, pa_calls>>

\* the loop over the sheets of a file ends: the next file, or the save
EndFile ==
    /\ pc = "sheet"
    /\ sheet_no > Len(CurrentFile.sheets)
    /\ file_index' = file_index + 1
    /\ pc' = IF file_index + 1 < n_files THEN "open" ELSE "save"
    /\ UNCHANGED <<fnvars, cfgvars, filevars, dstvars, sheet_no, col, row_count,
                   col_count, contains_a_target_column, max_row_count,
                   out_file, error, saves, pa_calls>>

\* Python's ~ on a bool is the bitwise complement of the int 0 or 1, and an
\* if takes any int but 0 as true
BitNot(b) == -(IF b THEN 1 ELSE 0) - 1

Truthy(n) == n # 0

\* header_cell_value in target_headers_set
InTargetHeaders(value, headers) ==
    value[1] = "str" /\ value[2] \in Range(headers)

\* a copy loop that leaves out the cells that are no numbers
RECURSIVE CopyRowsSkipping(_, _, _, _, _, _, _)
CopyRowsSkipping(cells, title, worksheet, row, last_row, col_no, dst_col) ==
    IF row > last_row THEN cells
    ELSE LET value == get_cell_value(worksheet, row, <<col_no>>, TRUE, PyNone).val
         IN  CopyRowsSkipping(
                IF value = PyNone THEN cells
                ELSE WriteCell(cells, title, Addr(row, dst_col), value),
                title, worksheet, row + 1, last_row, col_no, dst_col)

\* lines 205-223: the rows from `row' to row_count of source column col_no
\* are copied into destination column dst_col
RECURSIVE CopyRows(_, _, _, _, _, _, _)
CopyRows(cells, title, worksheet, row, last_row, col_no, dst_col) ==
    IF row > last_row THEN cells
    ELSE CopyRows(
            WriteCell(cells, title, Addr(row, dst_col),
                get_cell_value(worksheet, row, <<col_no>>, TRUE,
                               PyStr(ERROR_VALUE_FOR_INPUT)).val),
            title, worksheet, row + 1, last_row, col_no, dst_col)

HeaderCellValue == WorksheetValue(CurrentSheet, Addr(0, col))

\* the test of line 183
FirstMatchTest(flag) == Truthy(BitNot(flag))

\* lines 178-223 for a column whose header is a target header
MatchedColumn ==
    LET sheetname == CurrentSheet.title
        header_cell_value == HeaderCellValue[2]
        names == IF sheetname \in Range(dst_sheetnames) THEN dst_sheetnames
                 ELSE Append(dst_sheetnames, sheetname)
        cells0 == IF sheetname \in Range(dst_sheetnames) THEN dst_cells
                  ELSE (sheetname :> NoCells) @@ dst_cells
        sheet_index == ListIndex(names, sheetname)
        emit == FirstMatchTest(contains_a_target_column)
        cells1 == IF emit
                  THEN insert_point_analysis_formula(cells0, sheet_index,
                           sheetname, file_index, rel_space_between_targets,
                           target_headers)
                  ELSE cells0
        header_index == ListIndex(target_headers, header_cell_value)
        dst_col == DestColumn(file_index, header_index, rel_space_between_targets)
        cells2 == WriteCell(cells1, sheetname, Addr(0, dst_col),
                      PyStr(get_filename(CurrentFile) \o " ("
                            \o header_cell_value \o ")"))
    IN  /\ dst_sheetnames' = names
        /\ dst_cells' = CopyRows(cells2, sheetname, CurrentSheet, 1, row_count,
                                 col, dst_col)
        /\ contains_a_target_column' =
              IF emit THEN TRUE ELSE contains_a_target_column
        /\ pa_calls' = IF emit THEN Append(pa_calls, <<file_index, sheetname>>)
                       ELSE pa_calls

\* a scan that creates the destination sheet of every sheet it examines
ScanColumnEager ==
    /\ pc = "col"
    /\ col < col_count
    /\ IF InTargetHeaders(HeaderCellValue, target_headers)
       THEN MatchedColumn
       ELSE /\ dst_sheetnames' =
                  IF CurrentSheet.title \in Range(dst_sheetnames)
                  THEN dst_sheetnames
                  ELSE Append(dst_sheetnames, CurrentSheet.title)
            /\ dst_cells' =
                  IF CurrentSheet.title \in Range(dst_sheetnames)
                  THEN dst_cells
                  ELSE (CurrentSheet.title :> NoCells) @@ dst_cells
            /\ UNCHANGED <<contains_a_target_column, pa_calls>>
    /\ col' = col + 1
    /\ UNCHANGED <<fnvars, pc, cfgvars, filevars, dst_charts, file_index,
                   sheet_no, row_count, col_count, max_row_count,
                   out_file, error, saves>>

\* lines 174-223: one column of the sheet is examined
ScanColumn ==
    /\ pc = "col"
    /\ col < col_count
    /\ IF InTargetHeaders(HeaderCellValue, target_headers)
       THEN MatchedColumn
       ELSE UNCHANGED <<dst_sheetnames, dst_cells, contains_a_target_column,
                        pa_calls>>
    /\ col' = col + 1
    /\ UNCHANGED <<fnvars, pc, cfgvars, filevars, dst_charts, file_index,
                   sheet_no, row_count, col_count, max_row_count,
                   out_file, error, saves>>

\* the loop over the columns of a sheet ends
EndSheet ==
    /\ pc = "col"
    /\ col = col_count
    /\ sheet_no' = sheet_no + 1
    /\ pc' = "sheet"
    /\ UNCHANGED <<fnvars, cfgvars, filevars, dstvars, file_index, col,
                   row_count, col_count, contains_a_target_column,
                   max_row_count, out_file, error, saves, pa_calls>>

(***************************************************************************)
(* Lines 225-292: the workbook is saved, loaded again, cleaned, given its  *)
(* charts and saved again.                                                 *)
(***************************************************************************)
Snapshot == [exists |-> TRUE, sheetnames |-> dst_sheetnames,
             cells |-> dst_cells, charts |-> dst_charts]

\* line 227
SaveWorkbook ==
    /\ pc = "save"
    /\ out_file' = Snapshot
    /\ saves' = saves + 1
    /\ pc' = "reload"
    /\ UNCHANGED <<fnvars, cfgvars, filevars, dstvars, loopvars, error, pa_calls>>

\* a function without the element x of its domain
Without(f, x) == [y \in (DOMAIN f) \ {x} |-> f[y]]

\* lines 228-232: the saved workbook is loaded; when it has a sheet titled
\* "Sheet", its first sheet is removed
ReloadWorkbook ==
    /\ pc = "reload"
    /\ IF EXCEL_DEFAULT_SHEETNAME \in Range(out_file.sheetnames)
       THEN /\ dst_sheetnames' = Tail(out_file.sheetnames)
            /\ dst_cells' = Without(out_file.cells, out_file.sheetnames[1])
       ELSE /\ dst_sheetnames' = out_file.sheetnames
            /\ dst_cells' = out_file.cells
    /\ dst_charts' = out_file.charts
    /\ pc' = "charts"
    /\ UNCHANGED <<fnvars, cfgvars, filevars, loopvars, out_file, error, saves,
                   pa_calls>>

\* Workbook.create_sheet(title): a title in use gets the first free number
\* appended
RECURSIVE UniqueTitle(_, _, _)
UniqueTitle(names, title, k) ==
    IF k = 0 /\ title \notin Range(names) THEN title
    ELSE IF k > 0 /\ (title \o Join(IntToStr(k))) \notin Range(names)
    THEN title \o Join(IntToStr(k))
    ELSE UniqueTitle(names, title, k + 1)

\* lines 276-286: the charts of the point analysis sheet
RECURSIVE PointCharts(_, _, _)
PointCharts(names, j, pt_title) ==
    IF j > Len(names) THEN <<>>
    ELSE (IF names[j] # Join(create_sheet_name(POINT_ANALYSIS_CHARS))
          THEN <<[sheet |-> pt_title, title |-> names[j]]>>
          ELSE <<>>) \o PointCharts(names, j + 1, pt_title)

\* lines 244-286: the charts added while looping over the sheets from i on
RECURSIVE SheetCharts(_, _, _, _)
SheetCharts(names, i, pt_title, headers) ==
    IF i > Len(names) THEN <<>>
    ELSE (IF names[i] # POINT_ANALYSIS_LABEL
          THEN [k \in 1..Len(headers) |-> [sheet |-> names[i], title |-> names[i]]]
          ELSE PointCharts(names, 1, pt_title))
         \o SheetCharts(names, i + 1, pt_title, headers)

\* lines 234-286: with an independent variable sheet name, a sheet is created
\* for the point analysis charts and the charts are added; looking up a sheet
\* the workbook does not have raises KeyError.  insert_point_analysis_chart
\* is given the list target_headers as x_axis_label and sets it as the title
\* of the x axis (line 62): a chart axis that takes only a text raises
\* TypeError at the first chart of the point analysis sheet.
AddCharts ==
    /\ pc = "charts"
    /\ IF independent_variable_sheetname = ""
       THEN /\ pc' = "final"
            /\ UNCHANGED <<dstvars, error>>
       ELSE LET pt_title == UniqueTitle(dst_sheetnames,
                                Join(create_sheet_name(POINT_ANALYSIS_CHARS)), 0)
                names == Append(dst_sheetnames, pt_title)
            IN  /\ dst_sheetnames' = names
                /\ dst_cells' = (pt_title :> NoCells) @@ dst_cells
                /\ IF independent_variable_sheetname \notin Range(names)
                   THEN /\ Fail("KeyError")
                        /\ UNCHANGED dst_charts
                   ELSE IF /\ ~axis_title_accepts_list
                           /\ POINT_ANALYSIS_LABEL \in Range(names)
                           /\ PointCharts(names, 1, pt_title) # <<>>
                   THEN /\ Fail("TypeError")
                        /\ UNCHANGED dst_charts
                   ELSE /\ dst_charts' = dst_charts
                              \o SheetCharts(names, 1, pt_title, target_headers)
                        /\ pc' = "final"
                        /\ UNCHANGED error
    /\ UNCHANGED <<fnvars, cfgvars, filevars, loopvars, out_file, saves, pa_calls>>

\* lines 288-292
FinalSave ==
    /\ pc = "final"
    /\ out_file' = Snapshot
    /\ saves' = saves + 1
    /\ pc' = "done"
    /\ UNCHANGED <<fnvars, cfgvars, filevars, dstvars, loopvars, error, pa_calls>>

\* the process is ended from outside while the run is under way
Terminate ==
    /\ pc \notin {"done", "failed", "killed"}
    /\ pc' = "killed"
    /\ error' = pc
    /\ UNCHANGED <<fnvars, cfgvars, filevars, dstvars, loopvars, out_file,
                   saves, pa_calls>>

Next ==
    \/ Start
    \/ OpenFile
    \/ BeginSheet
    \/ ScanColumn
    \/ EndSheet
    \/ EndFile
    \/ SaveWorkbook
    \/ ReloadWorkbook
    \/ AddCharts
    \/ FinalSave
    \/ Terminate

Spec == Init /\ [][Next]_vars

(***************************************************************************)
(* A second call of collate_excel_files on the same folder.  The workbook  *)
(* the first call saved is a file of the folder, read as any source file.  *)
(***************************************************************************)
COLLATER_EXCEL_FILENAME == <<"Cumulative", EXCEL_FILE_EXTENSION>>

\* line 226: the name of the file at destination_path
DestinationName ==
    <<"-" \o COLLATER_EXCEL_FILENAME[1]>> \o Tail(COLLATER_EXCEL_FILENAME)

\* the formulas a run writes into its point analysis sheet
WrittenFormulas(sheetnames) ==
    { PointFormula(Addr(0, 1 + f),
                   f + (rel_space_between_targets * h) + 1, sheetnames[i]) :
        f \in 0..(n_files - 1), h \in 0..(Len(target_headers) - 1),
        i \in DOMAIN sheetnames }

\* load_workbook(path, data_only=True) gives, for a formula cell, the value
\* Excel stored with it; a workbook written by openpyxl stores none
StoredValue(value, formulas) ==
    IF value[1] = "str" /\ value[2] \in formulas THEN PyNone ELSE value

\* the worksheet read back from the cells written to a sheet: as many rows
\* and columns as the last written cell needs, at least one of each
StoredSheet(title, cells, formulas) ==
    LET used == {rc \in (0..MaxRowNo) \X (0..MaxColNo) :
                    Addr(rc[1], rc[2]) \in DOMAIN cells}
        n_rows == IF used = {} THEN 1
                  ELSE 1 + CHOOSE r \in 0..MaxRowNo :
                          /\ \E rc \in used : rc[1] = r
                          /\ \A rc \in used : rc[1] <= r
        n_cols == IF used = {} THEN 1
                  ELSE 1 + CHOOSE c \in 0..MaxColNo :
                          /\ \E rc \in used : rc[2] = c
                          /\ \A rc \in used : rc[2] <= c
    IN  Sheet(title,
              [r \in 1..n_rows |->
                  [c \in 1..n_cols |->
                      IF <<r - 1, c - 1>> \in used
                      THEN StoredValue(cells[Addr(r - 1, c - 1)], formulas)
                      ELSE PyNone]])

\* the saved workbook as a file of the folder
StoredFile(file) ==
    [name |-> DestinationName, loads |-> TRUE,
     sheets |-> [i \in DOMAIN file.sheetnames |->
                    StoredSheet(file.sheetnames[i],
                                file.cells[file.sheetnames[i]],
                                WrittenFormulas(file.sheetnames))]]

\* the folder without the file of that name
RECURSIVE WithoutName(_, _)
WithoutName(files, name) ==
    IF files = <<>> THEN <<>>
    ELSE IF files[1].name = name THEN WithoutName(Tail(files), name)
    ELSE <<files[1]>> \o WithoutName(Tail(files), name)

\* os.listdir after a run: the files that were there, and the saved
\* workbook when there is one, at any place of the list
ListingsAfter(files, file) ==
    IF ~file.exists THEN {files}
    ELSE LET others == WithoutName(files, DestinationName)
         IN  { SubSeq(others, 1, k) \o <<StoredFile(file)>>
                   \o SubSeq(others, k + 1, Len(others)) :
               k \in 0..Len(others) }

\* collate_excel_files has returned or raised, and is called again with the
\* same arguments
RunAgain ==
    /\ pc \in {"done", "failed"}
    /\ run_no < MaxRuns
    /\ run_no' = run_no + 1
    /\ listing' \in ListingsAfter(listing, out_file)
    /\ pc' = "start"
    /\ excel_file_paths' = <<>> /\ n_files' = 0 /\ rel_space_between_targets' = 0
    /\ dst_sheetnames' = <<>> /\ dst_cells' = <<>> /\ dst_charts' = <<>>
    /\ file_index' = 0 /\ sheet_no' = 0 /\ col' = 0
    /\ row_count' = 0 /\ col_count' = 0
    /\ contains_a_target_column' = FALSE /\ max_row_count' = 0
    /\ error' = "" /\ saves' = 0 /\ pa_calls' = <<>>
    /\ UNCHANGED <<fnvars, root_folder, target_headers,
                   independent_variable_sheetname, has_max_colum,
                   axis_title_accepts_list, out_file>>

NextTwice ==
    \/ Start
    \/ OpenFile
    \/ BeginSheet
    \/ ScanColumn
    \/ EndSheet
    \/ EndFile
    \/ SaveWorkbook
    \/ ReloadWorkbook
    \/ AddCharts
    \/ FinalSave
    \/ Terminate
    \/ RunAgain

SpecTwice == Init /\ [][NextTwice]_vars

(***************************************************************************)
(* The helper functions applied on their own, to inputs drawn from bounded *)
(* sets.  fn names the function, args its arguments and ret its result.    *)
(***************************************************************************)
\* sheet names Excel accepts, among them names with the characters the
\* address syntax uses
SheetNames ==
    { <<>>,
      <<"R", "u", "n", "1">>,
      <<"M", "y", " ", "D", "a", "t", "a">>,
      <<"a", "!", "b">>,
      <<"Q", "1", "!", "B", "2">>,
      <<"i", "t", "'", "s">> }

\* contents of a source cell
CellContents ==
    {PyStr(EXCEL_ERROR_VALUES[i]) : i \in 1..Len(EXCEL_ERROR_VALUES)}
        \cup {PyNone, PyFloat("1.5"), PyInt("2"), PyStr("3"), PyStr("abc"),
              PyStr("#NAME?")}

DefaultValues == {PyNone, PyStr(ERROR_VALUE_FOR_INPUT), PyFloat("0.0")}

\* a worksheet whose cell at 0-based (row_no, col_no) holds the content, and
\* whose other cells are empty
GridWith(row_no, col_no, content) ==
    Sheet("Data",
          [r \in 1..(row_no + 1) |->
              [c \in 1..(col_no + 1) |->
                  IF r = row_no + 1 /\ c = col_no + 1 THEN content ELSE PyNone]])

FnInit ==
    /\ fn = "none" /\ args = <<>> /\ ret = <<>>
    /\ root_folder = "" /\ listing = <<>>
    /\ target_headers = <<AVERAGE_LABEL, STD_LABEL>>
    /\ independent_variable_sheetname = ""
    /\ has_max_colum = FALSE
    /\ axis_title_accepts_list = FALSE
    /\ run_no = 1
    /\ RunIdle

FnFrame == UNCHANGED <<pc, cfgvars, filevars, dstvars, loopvars,
                       out_file, error, saves, pa_calls>>

\* the destination columns of all (file, header) pairs of a run over `files'
\* files and `headers' target headers
ApplyLayout ==
    \E files \in 1..MaxNFiles, headers \in 0..MaxNHeaders :
        /\ fn = "none"
        /\ fn' = "layout"
        /\ args' = [n_files |-> files, n_headers |-> headers]
        /\ ret' = [columns |->
                      [p \in (0..(files - 1)) \X (0..(headers - 1)) |->
                          Offset(p[1], p[2], files)]]
        /\ FnFrame

\* an address is built and taken apart again
ApplyRoundTrip ==
    \E row_no \in 0..MaxRowNo, col_no \in 0..MaxColNo, sheet_name \in SheetNames :
        /\ fn = "none"
        /\ fn' = "round_trip"
        /\ args' = [row_no |-> row_no, col_no |-> col_no, sheet_name |-> sheet_name]
        /\ ret' = convert_from_excel_cell_address(
                      convert_to_excel_address(row_no, col_no, sheet_name,
                                               FALSE, FALSE))
        /\ FnFrame

\* a cell is read; col_no is None for a column the caller did not locate
ApplyGetCellValue ==
    \E row_no \in 0..2, col_no \in {NoCol} \cup {<<c>> : c \in 0..2},
       content \in CellContents, is_number \in BOOLEAN,
       default_value \in DefaultValues :
        /\ fn = "none"
        /\ fn' = "get_cell_value"
        /\ args' = [row_no |-> row_no, col_no |-> col_no, content |-> content,
                    is_number |-> is_number, default_value |-> default_value]
        /\ ret' = get_cell_value(
                      GridWith(row_no, IF col_no = NoCol THEN 0 ELSE col_no[1],
                               content),
                      row_no, col_no, is_number, default_value)
        /\ FnFrame

\* the point analysis sheet as the workbook is created with it
NewPointSheet ==
    (POINT_ANALYSIS_LABEL :> (Addr(0, 0) :> PyStr("Column Index ->")))

\* insert_point_analysis_formula is called on a new point analysis sheet;
\* steps[k] is the sheet when the loop has handled the first k headers
ApplyPointFormula ==
    \E files \in 1..MaxNFiles, file_index_ \in 0..(MaxNFiles - 1),
       sheet_index \in 0..3, sheet_title \in {"Run1", "My Data"},
       headers \in TargetHeaderLists :
        /\ fn = "none"
        /\ file_index_ < files
        /\ fn' = "insert_point_analysis_formula"
        /\ args' = [sheet_index |-> sheet_index, sheet_title |-> sheet_title,
                    file_index_ |-> file_index_,
                    space_between_targets |-> Stride(files),
                    target_headers |-> headers]
        /\ ret' = [steps |->
                      [k \in 1..Len(headers) |->
                          insert_point_analysis_formula(NewPointSheet,
                              sheet_index, sheet_title, file_index_,
                              Stride(files), SubSeq(headers, 1, k))
                                  [POINT_ANALYSIS_LABEL]]]
        /\ FnFrame

(***************************************************************************)
(* least_square_fit.py.  The numbers of a fit are left out: a result is    *)
(* the number of coefficients fitted, or the exception raised.             *)
(***************************************************************************)
FitType == {"power", "exponent", "log", "ln"}

\* the functions of numpy that apply_fit can name
NumpyAttributes == {"exp", "power", "log10", "log", "corrcoef"}

\* the attribute of numpy that apply_fit looks up for a kind of fit
FitAttribute(fit_function) ==
    IF fit_function = "exponent" THEN "exp"
    ELSE IF fit_function = "power" THEN "POWER"
    ELSE IF fit_function = "log" THEN "log10"
    ELSE "LOG"

\* the highest index of consts that apply_fit reads
FitLastConst(fit_function) ==
    IF fit_function \in {"exponent", "power"} THEN 2 ELSE 1

\* apply_fit(consts, ind), lines 40-50: the function of numpy is looked up
\* before the last coefficient is read
apply_fit(fit_function, n_consts) ==
    IF fit_function \notin FitType THEN [raised |-> FALSE, error |-> ""]
    ELSE IF FitAttribute(fit_function) \notin NumpyAttributes
    THEN [raised |-> TRUE, error |-> "AttributeError"]
    ELSE IF FitLastConst(fit_function) >= n_consts
    THEN [raised |-> TRUE, error |-> "IndexError"]
    ELSE [raised |-> FALSE, error |-> ""]

\* least_square_fit(x, y, fit_function, init_guess): least_squares evaluates
\* residue, and so apply_fit, at the initial guess
least_square_fit(fit_function, n_init_guess) ==
    LET first == apply_fit(fit_function, n_init_guess)
    IN  IF first.raised
        THEN [raised |-> TRUE, error |-> first.error, n_coeffs |-> 0, r_sq |-> FALSE]
        ELSE [raised |-> FALSE, error |-> "", n_coeffs |-> n_init_guess, r_sq |-> TRUE]

ApplyLeastSquareFit ==
    \E fit_function \in FitType \cup {"linear"}, n_init_guess \in 2..3 :
        /\ fn = "none"
        /\ fn' = "least_square_fit"
        /\ args' = [fit_function |-> fit_function, n_init_guess |-> n_init_guess]
        /\ ret' = least_square_fit(fit_function, n_init_guess)
        /\ FnFrame

(***************************************************************************)
(* plot_generator.py: the scan of the header row of a sheet.               *)
(***************************************************************************)
HEADER_HEADER == "header"
X_HEADER == "x"
Y_HEADER == "y"
Y_ERROR_HEADER == "yerror"
Y_POS_ERROR_HEADER == "yerror+"
Y_NEG_ERROR_HEADER == "yerror-"
X_ERROR_HEADER == "xerror"
X_POS_ERROR_HEADER == "xerror+"
X_NEG_ERROR_HEADER == "xerror-"

\* lines 125-128: no target column is located
NoTargetCols ==
    [series_name_col |-> NoCol, x_col |-> NoCol, y_col |-> NoCol,
     y_pos_error_col |-> NoCol, y_neg_error_col |-> NoCol,
     x_pos_error_col |-> NoCol, x_neg_error_col |-> NoCol]

\* lines 133-165: the chain of tests for the header of column col_no
HeaderStep(cols, col_header, col_no) ==
    IF col_header = HEADER_HEADER /\ cols.series_name_col = NoCol
    THEN [cols EXCEPT !.series_name_col = <<col_no>>]
    ELSE IF col_header = X_HEADER /\ cols.x_col = NoCol
    THEN [cols EXCEPT !.x_col = <<col_no>>]
    ELSE IF col_header = Y_HEADER /\ cols.y_col = NoCol
    THEN [cols EXCEPT !.y_col = <<col_no>>]
    ELSE IF col_header = Y_ERROR_HEADER
    THEN [cols EXCEPT !.y_pos_error_col = <<col_no>>,
                      !.y_neg_error_col = <<col_no>>]
    ELSE IF col_header = Y_POS_ERROR_HEADER /\ cols.y_pos_error_col = NoCol
    THEN [cols EXCEPT !.y_pos_error_col = <<col_no>>]
    ELSE IF col_header = Y_NEG_ERROR_HEADER /\ cols.y_neg_error_col = NoCol
    THEN [cols EXCEPT !.y_neg_error_col = <<col_no>>]
    ELSE IF col_header = X_ERROR_HEADER
    THEN [cols EXCEPT !.x_pos_error_col = <<col_no>>,
                      !.x_neg_error_col = <<col_no>>]
    ELSE IF col_header = X_POS_ERROR_HEADER /\ cols.x_pos_error_col = NoCol
    THEN [cols EXCEPT !.x_pos_error_col = <<col_no>>]
    ELSE IF col_header = X_NEG_ERROR_HEADER /\ cols.x_neg_error_col = NoCol
    THEN [cols EXCEPT !.x_neg_error_col = <<col_no>>]
    ELSE cols

\* lines 167-176: None not in target_cols
AllLocated(cols) ==
    /\ cols.series_name_col # NoCol /\ cols.x_col # NoCol /\ cols.y_col # NoCol
    /\ cols.y_pos_error_col # NoCol /\ cols.y_neg_error_col # NoCol
    /\ cols.x_pos_error_col # NoCol /\ cols.x_neg_error_col # NoCol

\* lines 129-177: the loop over the columns from col_no on; with_break tells
\* whether the loop has the break of line 177
RECURSIVE HeaderLoop(_, _, _, _)
HeaderLoop(headers, col_no, cols, with_break) ==
    IF col_no >= Len(headers) THEN cols
    ELSE LET located == HeaderStep(cols, headers[col_no + 1], col_no)
         IN  IF with_break /\ AllLocated(located) THEN located
             ELSE HeaderLoop(headers, col_no + 1, located, with_break)

\* the scan as generate_plots does it
LocateTargetCols(headers) == HeaderLoop(headers, 0, NoTargetCols, TRUE)

\* header rows: a beginning, and up to MaxSuffix more headers of any kind
PlotHeaders ==
    {HEADER_HEADER, X_HEADER, Y_HEADER, Y_ERROR_HEADER, Y_POS_ERROR_HEADER,
     Y_NEG_ERROR_HEADER, X_ERROR_HEADER, X_POS_ERROR_HEADER, X_NEG_ERROR_HEADER,
     "comment"}

HeaderBeginnings ==
    { <<HEADER_HEADER, X_HEADER, Y_HEADER, Y_ERROR_HEADER, X_ERROR_HEADER>>,
      <<HEADER_HEADER, X_HEADER, Y_HEADER, Y_POS_ERROR_HEADER,
        Y_NEG_ERROR_HEADER, X_POS_ERROR_HEADER, X_NEG_ERROR_HEADER>>,
      <<X_HEADER, "comment", Y_ERROR_HEADER, HEADER_HEADER, Y_HEADER>>,
      <<HEADER_HEADER, X_HEADER, Y_HEADER>> }

\* the header row of a sheet is scanned, with and without the early exit
ApplyHeaderScan ==
    \E beginning \in HeaderBeginnings,
       suffix \in UNION {[1..n -> PlotHeaders] : n \in 0..MaxSuffix} :
        /\ fn = "none"
        /\ fn' = "header_scan"
        /\ args' = [headers |-> beginning \o suffix]
        /\ ret' = [early |-> LocateTargetCols(beginning \o suffix),
                   full |-> HeaderLoop(beginning \o suffix, 0, NoTargetCols, FALSE)]
        /\ FnFrame

(***************************************************************************)
(* plot_generator.py: the series of a sheet.  The name of a series is the  *)
(* sequence of its pieces of text, a prefix "secondary_", "secondary2_" or *)
(* "secondary3_" being a piece of its own; a data row is the name of its   *)
(* series and whether both its x and its y cell read as a number.          *)
(***************************************************************************)
SECONDARY_SERIES_PREFIX == "secondary_"
SECONDARY_2_SERIES_PREFIX == "secondary2_"
SECONDARY_3_SERIES_PREFIX == "secondary3_"

\* str(series_name).startswith(prefix)
StartsWith(series_name, prefix) ==
    series_name # <<>> /\ series_name[1] = prefix

\* the test of lines 216-229
IsSecondaryName(series_name) ==
    \/ StartsWith(series_name, SECONDARY_SERIES_PREFIX)
    \/ StartsWith(series_name, SECONDARY_2_SERIES_PREFIX)
    \/ StartsWith(series_name, SECONDARY_3_SERIES_PREFIX)

\* an index that is None
NoIndex == <<>>

\* plot_data.keys() holds the name
InPlotData(plot_data, series_name) ==
    \E i \in DOMAIN plot_data : plot_data[i].name = series_name

\* lines 185-252: the rows from row_no on are added to plot_data, which
\* keeps the series in the order they were added
RECURSIVE CollectSeries(_, _, _, _)
CollectSeries(rows, row_no, plot_data, series_count) ==
    IF row_no > Len(rows)
    THEN [plot_data |-> plot_data, series_count |-> series_count]
    ELSE IF ~rows[row_no].has_xy \/ InPlotData(plot_data, rows[row_no].name)
    THEN CollectSeries(rows, row_no + 1, plot_data, series_count)
    ELSE IF IsSecondaryName(rows[row_no].name)
    THEN CollectSeries(rows, row_no + 1,
            Append(plot_data, [name |-> rows[row_no].name, index |-> NoIndex]),
            series_count)
    ELSE CollectSeries(rows, row_no + 1,
            Append(plot_data, [name |-> rows[row_no].name,
                               index |-> <<series_count>>]),
            series_count + 1)

HasIndex(entry) == entry.index # NoIndex

HasNoIndex(entry) == entry.index = NoIndex

RECURSIVE Reversed(_)
Reversed(seq) ==
    IF seq = <<>> THEN <<>> ELSE Append(Reversed(Tail(seq)), seq[1])

\* lines 273-284: the series with an index in the order of their index,
\* then the series without, in the order they were added
sorted_series_names(plot_data, reverse_series) ==
    LET sorted == SelectSeq(plot_data, HasIndex) \o SelectSeq(plot_data, HasNoIndex)
    IN  IF reverse_series THEN Reversed(sorted) ELSE sorted

\* lines 316-324: the name without its first prefix
TrueName(series_name) ==
    IF IsSecondaryName(series_name) THEN Tail(series_name) ELSE series_name

\* lines 325-328: the index of the first series of that name, None without
LookupIndex(sorted, true_name) ==
    IF \E i \in DOMAIN sorted : sorted[i].name = true_name
    THEN sorted[CHOOSE i \in DOMAIN sorted :
                   /\ sorted[i].name = true_name
                   /\ \A j \in 1..(i - 1) : sorted[j].name # true_name].index
    ELSE NoIndex

\* a plot loop that gives every secondary series an index of its own
RECURSIVE PlotLoopOwnIndex(_, _, _, _)
PlotLoopOwnIndex(sorted, i, series_count, has_legends) ==
    IF i > Len(sorted) THEN <<>>
    ELSE IF sorted[i].index # NoIndex
    THEN <<[name |-> sorted[i].name, true_idx |-> sorted[i].index[1],
            legend |-> IF has_legends THEN sorted[i].index ELSE NoIndex]>>
         \o PlotLoopOwnIndex(sorted, i + 1, series_count, has_legends)
    ELSE <<[name |-> sorted[i].name, true_idx |-> series_count,
            legend |-> NoIndex]>>
         \o PlotLoopOwnIndex(sorted, i + 1, series_count + 1, has_legends)

\* lines 287-336: for each series in turn, the index of its colour and the
\* index of its legend (None for "_nolegend_")
RECURSIVE PlotLoop(_, _, _, _)
PlotLoop(sorted, i, series_count, has_legends) ==
    IF i > Len(sorted) THEN <<>>
    ELSE IF sorted[i].index # NoIndex
    THEN <<[name |-> sorted[i].name, true_idx |-> sorted[i].index[1],
            legend |-> IF has_legends THEN sorted[i].index ELSE NoIndex]>>
         \o PlotLoop(sorted, i + 1, series_count, has_legends)
    ELSE LET found == LookupIndex(sorted, TrueName(sorted[i].name))
         IN  IF found = NoIndex
             THEN <<[name |-> sorted[i].name, true_idx |-> series_count,
                     legend |-> NoIndex]>>
                  \o PlotLoop(sorted, i + 1, series_count + 1, has_legends)
             ELSE <<[name |-> sorted[i].name, true_idx |-> found[1],
                     legend |-> NoIndex]>>
                  \o PlotLoop(sorted, i + 1, series_count, has_legends)

SeriesNames ==
    { <<"a">>, <<"b">>, <<SECONDARY_SERIES_PREFIX, "a">>,
      <<SECONDARY_2_SERIES_PREFIX, "b">>, <<SECONDARY_3_SERIES_PREFIX, "c">> }

PlotRows == [name : SeriesNames, has_xy : BOOLEAN]

\* the series of a sheet are collected from its rows and plotted
ApplyPlotSeries ==
    /\ fn = "none"
    /\ \E rows \in UNION {[1..n -> PlotRows] : n \in 0..MaxPlotRows},
          reverse_series \in BOOLEAN, has_legends \in BOOLEAN :
           /\ fn' = "plot_series"
           /\ args' = [rows |-> rows, reverse_series |-> reverse_series,
                       has_legends |-> has_legends]
           /\ ret' = LET collected == CollectSeries(rows, 1, <<>>, 0)
                     IN  [plotted |->
                             PlotLoop(sorted_series_names(collected.plot_data,
                                                          reverse_series),
                                      1, collected.series_count, has_legends)]
           /\ FnFrame

\* names of files, as their dot-separated parts
FileNames ==
    { <<"a", "xlsx">>, <<"run", "v2", "xlsx">>, <<"notes">>,
      <<"~$a", "xlsx">>, <<"data", "2024", "01", "xlsx">> }

\* get_filename is applied to the path of a file in a folder
ApplyGetFilename ==
    \E folder \in {"", "C:/data", "C:/data.v1"}, name \in FileNames :
        /\ fn = "none"
        /\ fn' = "get_filename"
        /\ args' = [folder |-> folder, name |-> name]
        /\ ret' = [filename |-> get_filename([folder |-> folder, name |-> name])]
        /\ FnFrame

\* proposed sheet names, as their characters: short names over a letter and
\* characters Excel forbids, and names around the limit of 31 characters
ProposedNames ==
    UNION {[1..n -> {"a", "/", "[", "?"}] : n \in 0..MaxNameLen}
    \cup {[i \in 1..n |-> "a"] : n \in 30..33}
    \cup {[i \in 1..32 |-> IF i = 32 THEN "*" ELSE "a"],
          [i \in 1..32 |-> IF i = 1 THEN ":" ELSE "a"]}

\* create_sheet_name is given a proposed name
ApplyCreateSheetName ==
    /\ fn = "none"
    /\ \E name \in ProposedNames :
           /\ fn' = "create_sheet_name"
           /\ args' = [name |-> name]
           /\ ret' = [sheet_name |-> create_sheet_name(name)]
           /\ FnFrame

\* formulas handed to error_guard_formula by the other generators of
\* excel_formulas.py, with and without leading "="
GuardedFormulas ==
    { <<"=", "A", "1", "/", "B", "1">>,
      <<"=", "ABS", "(", "A", "1", "/", "B", "1", ")">>,
      <<"=", "(", "A", "1", " + ", "B", "1", ")", " / 2">>,
      <<"=", "=", "A", "1">>,
      <<"SUM", "(", "A", "1", ":", "B", "1", ")">> }

\* the columns a row range starts at
RangeStarts == {0, 1}

\* get_average_equation_for_row_range is given a row range
ApplyAverageRowRange ==
    /\ fn = "none"
    /\ \E row_no \in 0..MaxRowNo, start_col_no \in RangeStarts,
          end_col_no \in 0..MaxColNo, positive_only \in BOOLEAN :
           /\ start_col_no <= end_col_no
           /\ fn' = "average_row_range"
           /\ args' = [row_no |-> row_no, start_col_no |-> start_col_no,
                       end_col_no |-> end_col_no, positive_only |-> positive_only]
           /\ ret' = [formula |-> get_average_equation_for_row_range(
                                     row_no, start_col_no, end_col_no, positive_only)]
           /\ FnFrame

\* get_std_equation_for_row_range is given a row range
ApplyStdRowRange ==
    /\ fn = "none"
    /\ \E row_no \in 0..MaxRowNo, start_col_no \in RangeStarts,
          end_col_no \in 0..MaxColNo, positive_only \in BOOLEAN :
           /\ start_col_no <= end_col_no
           /\ fn' = "std_row_range"
           /\ args' = [row_no |-> row_no, start_col_no |-> start_col_no,
                       end_col_no |-> end_col_no, positive_only |-> positive_only]
           /\ ret' = [formula |-> get_std_equation_for_row_range(
                                     row_no, start_col_no, end_col_no, positive_only)]
           /\ FnFrame

\* error_guard_formula is given a formula and a default
ApplyErrorGuard ==
    /\ fn = "none"
    /\ \E formula \in GuardedFormulas, default \in DefaultValues :
           /\ fn' = "error_guard_formula"
           /\ args' = [formula |-> formula, default |-> default]
           /\ ret' = [formula |-> error_guard_formula(formula, default)]
           /\ FnFrame

FnNext ==
    \/ ApplyLayout
    \/ ApplyRoundTrip
    \/ ApplyGetCellValue
    \/ ApplyPointFormula
    \/ ApplyGetFilename
    \/ ApplyLeastSquareFit
    \/ ApplyHeaderScan
    \/ ApplyPlotSeries
    \/ ApplyCreateSheetName
    \/ ApplyAverageRowRange
    \/ ApplyStdRowRange
    \/ ApplyErrorGuard

SpecFn == FnInit /\ [][FnNext]_vars

(***************************************************************************)
(* Properties.                                                             *)
(***************************************************************************)
\* C1: for a run over N >= 1 files and H target headers, the destination
\* columns f + h*(N+2) of the N*H pairs (f, h) are pairwise distinct.
C1_OffsetInjective ==
    fn = "layout" =>
        /\ \A p, q \in DOMAIN ret.columns :
              p # q => ret.columns[p] # ret.columns[q]
        /\ Cardinality({ret.columns[p] : p \in DOMAIN ret.columns})
              = args.n_files * args.n_headers

C1_Witness ==
    /\ fn = "layout"
    /\ args.n_files = 3 /\ args.n_headers = 3
    /\ ret.columns[<<2, 0>>] = 2
    /\ ret.columns[<<0, 1>>] = 5
    /\ ret.columns[<<2, 2>>] = 12

\* C2: taking apart the address built from (row, col, sheet name) gives back
\* the sheet name, the row and the column, for every sheet name.
C2_RoundTrip ==
    fn = "round_trip" =>
        /\ ~ret.raised
        /\ ret.sheet_name = args.sheet_name
        /\ ret.row_no = args.row_no
        /\ ret.col_no = args.col_no

ReadsErrorMarker ==
    /\ fn = "get_cell_value"
    /\ args.col_no # NoCol
    /\ InErrorValues(args.content)

\* C4, as stated: a cell that holds an error marker reads as the default
\* value and never as the marker, whether a number is expected or not.
C4_DefaultNeverMarker ==
    ReadsErrorMarker =>
        /\ ~ret.raised
        /\ ret.val = args.default_value
        /\ ret.val # args.content

\* C4, amended: a cell that holds an error marker reads as the default value,
\* whether a number is expected or not; the result is the marker only when
\* the default value is that marker.
C4_DefaultForMarker ==
    ReadsErrorMarker =>
        /\ ~ret.raised
        /\ ret.val = args.default_value
        /\ (args.default_value # args.content => ret.val # args.content)

C4_Witness ==
    /\ ReadsErrorMarker
    /\ args.content = PyStr(DIV0_EXCEL_ERROR)
    /\ ~args.is_number
    /\ args.default_value = PyNone
    /\ ret = [raised |-> FALSE, val |-> PyNone]

\* C5: get_cell_value never raises, also for the column None of a column
\* that was not located.
C5_NeverRaises ==
    fn = "get_cell_value" => ~ret.raised

\* the files whose scan is over, while the workbook is the one of the scan
ScannedFiles ==
    IF pc \in {"open", "sheet", "col", "save"}
    THEN {f \in 0..(n_files - 1) : f < file_index}
    ELSE {}

\* the 0-based columns of a source sheet whose header is a target header
TargetColumns(worksheet) ==
    {c \in 0..(max_column(worksheet) - 1) :
        InTargetHeaders(worksheet.rows[1][c + 1], target_headers)}

BadCell(value) ==
    \/ value[1] = "NoneType"
    \/ value[1] = "str" /\ value[2] \notin DOMAIN FloatOfText

FirstBadFile ==
    {k \in 1..Len(excel_file_paths) :
        /\ ~excel_file_paths[k].loads
        /\ \A j \in 1..(k - 1) : excel_file_paths[j].loads}

\* C9: when the k-th source workbook cannot be opened the run ends in
\* failure with the error of load_workbook: no later file is scanned and no
\* output workbook is saved.
C9_OpenFailureIsFatal ==
    \A k \in FirstBadFile :
        /\ file_index <= k - 1
        /\ saves = 0
        /\ ~out_file.exists
        /\ pc \notin {"save", "reload", "charts", "final", "done"}
        /\ \A i \in DOMAIN pa_calls : pa_calls[i][1] < k - 1
        /\ (file_index = k - 1 /\ pc \notin {"open", "killed"}) =>
              (pc = "failed" /\ error = "InvalidFileException")

\* the second file could not be opened after the first had been scanned
C9_Witness ==
    /\ pc = "failed"
    /\ error = "InvalidFileException"
    /\ file_index = 1
    /\ pa_calls # <<>>
    /\ ~out_file.exists

\* no folder was chosen, or no file of the folder ends with ".xlsx"
NothingToCollate ==
    \/ root_folder = ""
    \/ \A i \in DOMAIN listing :
          ~(Len(listing[i].name) >= 2
            /\ listing[i].name[Len(listing[i].name)] = "xlsx")

\* C10: without a folder, or with a folder that holds no ".xlsx" file, the
\* run returns normally and has created no destination workbook, scanned
\* nothing and written no output file.
C10_NoFilesNoOp ==
    NothingToCollate =>
        /\ pc \in {"start", "done", "killed"}
        /\ pc = "killed" => error = "start"
        /\ pc = "done" => error = ""
        /\ dst_sheetnames = <<>>
        /\ dst_cells = <<>>
        /\ pa_calls = <<>>
        /\ saves = 0
        /\ ~out_file.exists

\* a run over a folder that holds only a file of another kind has returned
C10_Witness ==
    /\ pc = "done"
    /\ root_folder # ""
    /\ listing = <<FileTxt>>
    /\ n_files = 0
    /\ dst_sheetnames = <<>>
    /\ ~out_file.exists

\* the names of the source sheets in which a target column has been matched
\* so far (every match is followed by a call for the point analysis sheet)
MatchedNames == {pa_calls[i][2] : i \in DOMAIN pa_calls}

DataSheets == {dst_sheetnames[i] : i \in 3..Len(dst_sheetnames)}

C14_NoMatchNoEffect ==
    [][ (/\ pc \in {"sheet", "col"}
         /\ sheet_no \in 1..Len(CurrentFile.sheets)
         /\ TargetColumns(CurrentSheet) = {})
        => UNCHANGED <<dst_sheetnames, dst_cells, dst_charts, pa_calls>>
      ]_vars

\* the sheet Notes of e.xlsx, the second file of the run, has been scanned to
\* its last column: the workbook has what the first file gave and no sheet
\* Notes
C14_Witness ==
    /\ pc = "sheet"
    /\ error = ""
    /\ file_index = 1
    /\ CurrentFile = FileE
    /\ sheet_no = 2
    /\ col = 2 /\ col_count = 2
    /\ TargetColumns(FileE.sheets[1]) = {}
    /\ pa_calls # <<>>
    /\ "Notes" \notin Range(dst_sheetnames)
    /\ "Notes" \notin DOMAIN dst_cells

\* C15: the scan of a sheet examines row 0 of every column from 0 up to the
\* column count the sheet reports, from left to right, and matches the
\* columns whose header is a target header and no other: reading the sizes
\* of the sheet does not fail, and when the scan stands at column col, the
\* target columns before col have their header cell in the destination and a
\* point analysis row exists for the sheet exactly when there is such a column.
C15_LocatorMatchesTargets ==
    /\ error # "AttributeError"
    /\ pc = "col" =>
          /\ col_count = max_column(CurrentSheet)
          /\ \A c \in {k \in TargetColumns(CurrentSheet) : k < col} :
                LET h == CurrentSheet.rows[1][c + 1][2]
                    dst_col == file_index
                                 + ListIndex(target_headers, h) * (n_files + 2)
                IN  /\ CurrentSheet.title \in DOMAIN dst_cells
                    /\ Addr(0, dst_col) \in DOMAIN dst_cells[CurrentSheet.title]
          /\ (\E i \in DOMAIN pa_calls :
                 pa_calls[i] = <<file_index, CurrentSheet.title>>)
             <=> (\E k \in TargetColumns(CurrentSheet) : k < col)

\* C16: in a run over N files, the two columns N + h*(N+2) and
\* N+1 + h*(N+2) that follow the block of header h hold no header cell and
\* no data cell in any destination sheet.
C16_GapColumnsFree ==
    \A t \in (DOMAIN dst_cells) \ {POINT_ANALYSIS_LABEL} :
        \A a \in DOMAIN dst_cells[t] :
            \A h \in 0..(Len(target_headers) - 1) :
                xl_cell_to_rowcol(a).col \notin
                    {n_files + h * (n_files + 2),
                     n_files + 1 + h * (n_files + 2)}

\* two files with both target headers have been collected: the blocks of
\* Average (columns 0, 1) and STD (columns 4, 5) are filled
C16_Witness ==
    /\ pc = "save"
    /\ n_files = 2
    /\ target_headers = <<AVERAGE_LABEL, STD_LABEL>>
    /\ "Run1" \in DOMAIN dst_cells
    /\ {Addr(0, 0), Addr(0, 1), Addr(0, 4), Addr(0, 5), Addr(1, 5)}
          \subseteq DOMAIN dst_cells["Run1"]

\* C17: for the header at position h of the header list,
\* insert_point_analysis_formula writes the label "sheet_title (header)" at
\* row sheet_index, column stride*h, and at row sheet_index, column
\* 1 + file_index, a formula that addresses, in the sheet sheet_title, the row
\* one below the value of the anchor cell and the column file_index + stride*h
\* (the 1-based column file_index + stride*h + 1 of ADDRESS); the labels of
\* all headers are in the sheet when the call returns.
C17_LabelAndFormula ==
    fn = "insert_point_analysis_formula" =>
        \A k \in 1..Len(args.target_headers) :
            LET h == k - 1
                label_cell == Addr(args.sheet_index, args.space_between_targets * h)
                formula_cell == Addr(args.sheet_index, 1 + args.file_index_)
                anchor == Join(Addr(0, 1 + args.file_index_))
                column == args.file_index_ + args.space_between_targets * h
            IN  /\ label_cell \in DOMAIN ret.steps[k]
                /\ ret.steps[k][label_cell] =
                      PyStr(args.sheet_title \o " ("
                            \o args.target_headers[k] \o ")")
                /\ label_cell \in DOMAIN ret.steps[Len(args.target_headers)]
                /\ ret.steps[Len(args.target_headers)][label_cell] =
                      ret.steps[k][label_cell]
                /\ formula_cell \in DOMAIN ret.steps[k]
                /\ ret.steps[k][formula_cell] =
                      PyStr("=INDIRECT(ADDRESS(" \o anchor \o "+1, "
                            \o Join(IntToStr(column + 1)) \o ",,,\""
                            \o args.sheet_title \o "\"))")

\* the call for sheet Run1 (index 2) of the second of two files: the label
\* of STD is at E3, and C3 holds the formula of Average, then that of STD
C17_Witness ==
    /\ fn = "insert_point_analysis_formula"
    /\ args.sheet_index = 2 /\ args.sheet_title = "Run1"
    /\ args.file_index_ = 1 /\ args.space_between_targets = 4
    /\ args.target_headers = <<AVERAGE_LABEL, STD_LABEL>>
    /\ ret.steps[2][<<"A", "3">>] = PyStr("Run1 (Average)")
    /\ ret.steps[2][<<"E", "3">>] = PyStr("Run1 (STD)")
    /\ ret.steps[1][<<"C", "3">>] =
          PyStr("=INDIRECT(ADDRESS(C1+1, 2,,,\"Run1\"))")
    /\ ret.steps[2][<<"C", "3">>] =
          PyStr("=INDIRECT(ADDRESS(C1+1, 6,,,\"Run1\"))")

\* the sheet of the file at 0-based position f that has the title s
SourceSheet(f, s) ==
    LET file == excel_file_paths[f + 1]
    IN  file.sheets[CHOOSE n \in DOMAIN file.sheets : file.sheets[n].title = s]

C19_FormulasGuarded ==
    fn = "insert_point_analysis_formula" =>
        \A k \in 1..Len(args.target_headers) :
            LET formula_cell == Addr(args.sheet_index, 1 + args.file_index_)
                reference ==
                    <<"=",
                      "INDIRECT(ADDRESS(" \o Join(Addr(0, 1 + args.file_index_))
                          \o "+1, "
                          \o Join(IntToStr(args.file_index_
                                 + args.space_between_targets * (k - 1) + 1))
                          \o ",,,\"" \o args.sheet_title \o "\"))">>
            IN  \E default \in DefaultValues :
                    ret.steps[k][formula_cell] =
                        PyStr(Join(error_guard_formula(reference, default)))

\* the cells of a sheet in row 0
HeaderColumns(cells) ==
    {xl_cell_to_rowcol(a).col : a \in {b \in DOMAIN cells : xl_cell_to_rowcol(b).row = 0}}

\* C20: a run over the two files a.xlsx and b.xlsx, each with one sheet Run1
\* that has the columns Average and STD, with both as target headers and
\* without charts, completes; its output has the point analysis sheet and
\* the one destination sheet Run1, with header cells at columns 0, 1, 4 and
\* 5, nothing in columns 2 and 3, and one point analysis row for Run1.
C20_Run1Scenario ==
    (/\ excel_file_paths = <<FileA, FileB>>
     /\ target_headers = <<AVERAGE_LABEL, STD_LABEL>>
     /\ independent_variable_sheetname = "")
    =>
    /\ pc # "failed"
    /\ pc = "done" =>
          /\ out_file.exists
          /\ out_file.sheetnames = <<POINT_ANALYSIS_LABEL, "Run1">>
          /\ HeaderColumns(out_file.cells["Run1"]) = {0, 1, 4, 5}
          /\ \A a \in DOMAIN out_file.cells["Run1"] :
                xl_cell_to_rowcol(a).col \notin {2, 3}
          /\ Cardinality(
                {xl_cell_to_rowcol(a).row :
                    a \in {b \in DOMAIN out_file.cells[POINT_ANALYSIS_LABEL] :
                             out_file.cells[POINT_ANALYSIS_LABEL][b] \in
                                {PyStr("Run1 (Average)"), PyStr("Run1 (STD)")}}})
                = 1

\* the text of a name given by its dot-separated parts
RECURSIVE Dotted(_)
Dotted(parts) ==
    IF parts = <<>> THEN ""
    ELSE IF Len(parts) = 1 THEN parts[1]
    ELSE parts[1] \o "." \o Dotted(Tail(parts))

\* C21: get_filename returns the last path component without its extension,
\* the extension being the suffix that starts at the last dot: the result
\* followed by the extension is the name of the file, so a name with dots in
\* it keeps all that is before the extension.
C21_NameWithoutExtension ==
    fn = "get_filename" =>
        /\ Len(args.name) >= 2 =>
              /\ ret.filename =
                    Dotted(SubSeq(args.name, 1, Len(args.name) - 1))
              /\ ret.filename \o "." \o args.name[Len(args.name)]
                    = Dotted(args.name)
        /\ Len(args.name) = 1 => ret.filename = args.name[1]

\* C22: for each of the four kinds of fit, least_square_fit, given an initial
\* guess with the three coefficients of the fit functions, returns the pair
\* of the coefficients and R squared and raises nothing.
C22_FitReturnsForEveryKind ==
    (/\ fn = "least_square_fit"
     /\ args.fit_function \in FitType
     /\ args.n_init_guess = 3)
    => /\ ~ret.raised
       /\ ret.n_coeffs = args.n_init_guess
       /\ ret.r_sq

\* C23: leaving the scan of the header row as soon as all seven target
\* columns are located gives the same seven columns as scanning every column
\* of the sheet.
C23_EarlyExitSameResult ==
    fn = "header_scan" => ret.early = ret.full

\* the entry of a series in what was plotted
PlottedEntry(series_name) ==
    ret.plotted[CHOOSE i \in DOMAIN ret.plotted : ret.plotted[i].name = series_name]

PlottedNames == {ret.plotted[i].name : i \in DOMAIN ret.plotted}

\* the rows of a series: all of them, or those with an x and a y value
RowsOf(series_name, all_rows) ==
    {i \in DOMAIN args.rows :
        /\ args.rows[i].name = series_name
        /\ (all_rows \/ args.rows[i].has_xy)}

\* the first row of a series that has such rows
FirstRowOf(series_name, all_rows) ==
    CHOOSE i \in RowsOf(series_name, all_rows) :
        \A j \in RowsOf(series_name, all_rows) : i <= j

\* the statement of C24 with the rows that count as an appearance of a series
SeriesIndexing(all_rows) ==
    LET primaries == {n \in PlottedNames : ~IsSecondaryName(n)}
        secondaries == {n \in PlottedNames : IsSecondaryName(n)}
    IN  /\ {PlottedEntry(n).true_idx : n \in primaries}
              = 0..(Cardinality(primaries) - 1)
        /\ \A n, m \in primaries :
              FirstRowOf(n, all_rows) < FirstRowOf(m, all_rows) =>
                  PlottedEntry(n).true_idx < PlottedEntry(m).true_idx
        /\ \A n \in secondaries :
              /\ PlottedEntry(n).legend = NoIndex
              /\ (~IsSecondaryName(Tail(n)) /\ RowsOf(Tail(n), all_rows) # {}) =>
                    /\ Tail(n) \in primaries
                    /\ PlottedEntry(n).true_idx = PlottedEntry(Tail(n)).true_idx

\* C24, as stated: the primary series of a sheet have the indices 0, 1, 2,
\* ... in the order of their first row in the sheet, and every secondary
\* series is plotted without a legend entry and with the colour index of the
\* primary series named by what follows its prefix, when the sheet has it.
C24_SeriesByFirstRow ==
    fn = "plot_series" => SeriesIndexing(TRUE)

\* C24, amended: the same, a row counting as an appearance of its series only
\* when both its x and its y cell read as a number (other rows are left out
\* of the plot, and a series without such a row is not plotted).
C24_SeriesByFirstPlottedRow ==
    fn = "plot_series" =>
        /\ SeriesIndexing(FALSE)
        /\ PlottedNames = {n \in SeriesNames : RowsOf(n, FALSE) # {}}

\* rows b, secondary_a, a, the series reversed: a has index 1 and
\* secondary_a its colour, without legend
C24_Witness ==
    /\ fn = "plot_series"
    /\ args.rows = << [name |-> <<"b">>, has_xy |-> TRUE],
                      [name |-> <<SECONDARY_SERIES_PREFIX, "a">>, has_xy |-> TRUE],
                      [name |-> <<"a">>, has_xy |-> TRUE] >>
    /\ args.reverse_series /\ args.has_legends
    /\ ret.plotted =
          << [name |-> <<SECONDARY_SERIES_PREFIX, "a">>, true_idx |-> 1,
              legend |-> NoIndex],
             [name |-> <<"a">>, true_idx |-> 1, legend |-> <<1>>],
             [name |-> <<"b">>, true_idx |-> 0, legend |-> <<0>>] >>

(***************************************************************************)
(* C25                                                                     *)
(***************************************************************************)
IllegalSheetNameChars == {"[", "]", ":", "*", "?", "/", "\\"}

\* C25: for every non-empty proposed name, create_sheet_name returns a name
\* of 1 to 31 characters with none of the characters [ ] : * ? / \
C25_ValidSheetName ==
    (fn = "create_sheet_name" /\ args.name # <<>>) =>
        /\ Len(ret.sheet_name) \in 1..31
        /\ \A i \in DOMAIN ret.sheet_name :
              ret.sheet_name[i] \notin IllegalSheetNameChars

(***************************************************************************)
(* C26                                                                     *)
(***************************************************************************)
\* number of parentheses open after the first i pieces of a formula
RECURSIVE ParenDepth(_, _)
ParenDepth(formula, i) ==
    IF i = 0 THEN 0
    ELSE ParenDepth(formula, i - 1)
            + (IF formula[i] = "(" THEN 1 ELSE IF formula[i] = ")" THEN -1 ELSE 0)

BalancedParens(formula) ==
    /\ \A i \in 1..Len(formula) : ParenDepth(formula, i) >= 0
    /\ ParenDepth(formula, Len(formula)) = 0

OneLeadingEquals(formula) ==
    Len(formula) >= 2 /\ formula[1] = "=" /\ formula[2] # "="

\* =IFERROR(<formula>, <default or NA()>): the parenthesis opened after
\* IFERROR is closed by the last piece, and holds a formula, a comma at its
\* own level, and NA() or one default value
WrappedInIfError(formula) ==
    LET n == Len(formula)
    IN  /\ n >= 6
        /\ formula[2] = "IFERROR"
        /\ formula[3] = "("
        /\ formula[n] = ")"
        /\ \A i \in 3..(n - 1) : ParenDepth(formula, i) >= 1
        /\ ParenDepth(formula, n) = 0
        /\ \E k \in 5..(n - 2) :
              /\ formula[k] = ", "
              /\ ParenDepth(formula, k) = 1
              /\ \/ SubSeq(formula, k + 1, n - 1) = <<"NA", "(", ")">>
                 \/ k + 2 = n

FormulaFns == {"average_row_range", "std_row_range", "error_guard_formula"}

\* C26: every formula returned by get_average_equation_for_row_range,
\* get_std_equation_for_row_range and error_guard_formula starts with exactly
\* one "=", is wrapped as IFERROR(<formula>, <default or NA()>) and has
\* balanced parentheses
C26_FormulasWellFormed ==
    fn \in FormulaFns =>
        /\ OneLeadingEquals(ret.formula)
        /\ WrappedInIfError(ret.formula)
        /\ BalancedParens(ret.formula)

(***************************************************************************)
(* C27                                                                     *)
(***************************************************************************)
\* the run has listed its folder (line 133)
FolderListed == pc # "start" /\ ~(pc = "killed" /\ error = "start")

CopiesColumn ==
    /\ pc = "col" /\ col < col_count
    /\ InTargetHeaders(HeaderCellValue, target_headers)

\* the destination column of the matched column of the step
CopiedInto ==
    DestColumn(file_index, ListIndex(target_headers, HeaderCellValue[2]),
               rel_space_between_targets)

\* destination rows are 0-based: the header is row 0, and a source sheet
\* with R rows has its last row at row R - 1
LastSourceRow == max_row(CurrentSheet) - 1

CopiedCells ==
    {Addr(r, CopiedInto) : r \in 0..row_count}

====
